---------------------------- MODULE Spec2Model ----------------------------
(***************************************************************************)
(* A model of the 4-in-a-Row backend: the board engine (board.go), the     *)
(* session registry game.Manager (manager.go) and the operations the       *)
(* server calls on it.                                                     *)
(*                                                                         *)
(* The specifications share the variables:                                 *)
(*   Spec        the registry from NewManager on, its methods called as    *)
(*               the server calls them, by two identities;                 *)
(*   SpecNames   the same, one identity being named "bot";                 *)
(*   SpecLate    the registry late in a game of two players, so that full  *)
(*               columns, wins, full boards and draws are in reach;        *)
(*   SpecAbandon Spec with Abandon, which the server never calls;          *)
(*   SpecTimer   connections and the fallback timers they start;           *)
(*   SpecServer  the server: clients, their adapters and queues, the       *)
(*               timers and the sweeper, no moves being sent;              *)
(*   SpecSweep   SpecServer with the sweeper and the clock running on;     *)
(*   SpecBot     one identity, its connections and its moves against the   *)
(*               embedded opponent;                                        *)
(*   SpecQueue   two connected players late in a game, filling a queue;    *)
(*   SpecGrid    Board.ApplyMove as a function, applied to boards that     *)
(*               drops of either mark build on a few seed boards.          *)
(***************************************************************************)
EXTENDS Integers, Sequences, FiniteSets, TLC

(***************************************************************************)
(* board.go: constants and errors                                          *)
(***************************************************************************)
Columns == 7
Rows == 6

CellEmpty == 0
CellP1 == 1
CellP2 == 2

NoErr == "nil"
ErrColumnFull == "column is full"
ErrInvalidTurn == "not your turn"
ErrInvalidCol == "invalid column"
ErrGameFinished == "game already finished"

RowIdx == 0 .. (Rows - 1)
ColIdx == 0 .. (Columns - 1)

\* The zero value of Board: every cell CellEmpty.
ZeroBoard == [r \in RowIdx |-> [c \in ColIdx |-> CellEmpty]]

\* The zero value of MoveResult, returned with every error.
ZeroResult == [Board |-> ZeroBoard, Winner |-> 0, IsDraw |-> FALSE, Winning |-> <<>>]

\* CopyBoard copies cell by cell.
CopyBoard(src) == [r \in RowIdx |-> [c \in ColIdx |-> src[r][c]]]

InBoard(r, c) == r >= 0 /\ r < Rows /\ c >= 0 /\ c < Columns

(***************************************************************************)
(* winningCoords' closure check(r, c): from (r, c) it appends cells of     *)
(* player and steps by (+dx, +dy) until it leaves the board or meets       *)
(* another cell.  Both calls of the closure step by (+dx, +dy).            *)
(***************************************************************************)
RECURSIVE check(_, _, _, _, _, _)
check(board, player, r, c, dx, dy) ==
    IF ~InBoard(r, c) THEN <<>>
    ELSE IF board[r][c] # player THEN <<>>
    ELSE <<<<r, c>>>> \o check(board, player, r + dx, c + dy, dx, dy)

\* The second call of the closure, check(row-dx, col-dy).
checkBack(board, player, row, col, dx, dy) ==
    check(board, player, row - dx, col - dy, dx, dy)

winningCoords(board, row, col, player, dx, dy) ==
    LET coords == <<<<row, col>>>>
                    \o check(board, player, row + dx, col + dy, dx, dy)
                    \o checkBack(board, player, row, col, dx, dy)
    IN  IF Len(coords) >= 4 THEN coords ELSE <<>>

directions == <<<<1, 0>>, <<0, 1>>, <<1, 1>>, <<1, -1>>>>

\* The draw test of evaluate: no empty cell in row 0.
TopRowFull(board) == \A c \in ColIdx : board[0][c] # CellEmpty

evaluate(board, row, col, player) ==
    LET hits == {i \in 1 .. Len(directions) :
                    Len(winningCoords(board, row, col, player,
                                      directions[i][1], directions[i][2])) >= 4}
    IN  IF hits # {}
        THEN LET i == CHOOSE j \in hits : \A k \in hits : j <= k
             IN  [Board |-> board, Winner |-> player, IsDraw |-> FALSE,
                  Winning |-> winningCoords(board, row, col, player,
                                            directions[i][1], directions[i][2])]
        ELSE [Board |-> board, Winner |-> 0, IsDraw |-> TopRowFull(board),
              Winning |-> <<>>]

\* The rows of col the loop of ApplyMove can stop at.
EmptyRows(b, col) == {r \in RowIdx : b[r][col] = CellEmpty}

\* The loop run from row 0 up: it stops at the highest empty cell.
LandingRowTop(b, col) == CHOOSE r \in EmptyRows(b, col) : \A q \in EmptyRows(b, col) : q >= r

\* The row the loop stops at: it runs from Rows-1 down to 0.
LandingRow(b, col) == CHOOSE r \in EmptyRows(b, col) : \A q \in EmptyRows(b, col) : q <= r

\* ApplyMove with a loop that writes the top cell of a full column before
\* it returns ErrColumnFull.
ApplyMoveOverwriting(b, col, player) ==
    IF col < 0 \/ col >= Columns
    THEN [err |-> ErrInvalidCol, board |-> b, row |-> -1, res |-> ZeroResult]
    ELSE IF EmptyRows(b, col) = {}
    THEN [err |-> ErrColumnFull, board |-> [b EXCEPT ![0][col] = player],
          row |-> -1, res |-> ZeroResult]
    ELSE LET row == LandingRow(b, col)
             nb == [b EXCEPT ![row][col] = player]
         IN  [err |-> NoErr, board |-> nb, row |-> row,
              res |-> evaluate(nb, row, col, player)]

(***************************************************************************)
(* Board.ApplyMove: board is the receiver after the call (changed in       *)
(* place on success only), row the cell written (-1: none).                *)
(***************************************************************************)
ApplyMove(b, col, player) ==
    IF col < 0 \/ col >= Columns
    THEN [err |-> ErrInvalidCol, board |-> b, row |-> -1, res |-> ZeroResult]
    ELSE IF EmptyRows(b, col) = {}
    THEN [err |-> ErrColumnFull, board |-> b, row |-> -1, res |-> ZeroResult]
    ELSE LET row == LandingRow(b, col)
             nb == [b EXCEPT ![row][col] = player]
         IN  [err |-> NoErr, board |-> nb, row |-> row,
              res |-> evaluate(nb, row, col, player)]


(***************************************************************************)
(* bot.go: the embedded opponent                                           *)
(***************************************************************************)
canPlay(board, col) == board[0][col] = CellEmpty

\* The columns at which the loop of findImmediate returns.
ImmediateCols(board, player) ==
    {col \in ColIdx : /\ canPlay(board, col)
                      /\ ApplyMove(CopyBoard(board), col, player).res.Winner = player}

\* findImmediate: the first such column, -1 for (-1, false).
findImmediate(board, player) ==
    IF ImmediateCols(board, player) = {} THEN -1
    ELSE CHOOSE col \in ImmediateCols(board, player) :
            \A other \in ImmediateCols(board, player) : col <= other

preferred == <<3, 2, 4, 1, 5, 0, 6>>

\* Lines 26-29: the mark ChooseMove blocks.
Opponent(player) == IF player = CellP1 THEN CellP2 ELSE CellP1

\* Steps 3 and 4 of ChooseMove: the first playable column of preferred,
\* then the first playable column at all, then 0.
DefaultCol(board) ==
    LET open == {i \in 1 .. Len(preferred) : canPlay(board, preferred[i])}
        any == {col \in ColIdx : canPlay(board, col)}
    IN  IF open # {}
        THEN preferred[CHOOSE i \in open : \A j \in open : i <= j]
        ELSE IF any # {}
        THEN CHOOSE col \in any : \A other \in any : col <= other
        ELSE 0

\* Bot.ChooseMove for the Bot with Player = player.
ChooseMove(board, player) ==
    IF findImmediate(board, player) # -1 THEN findImmediate(board, player)
    ELSE IF findImmediate(board, Opponent(player)) # -1
    THEN findImmediate(board, Opponent(player))
    ELSE DefaultCol(board)

(***************************************************************************)
(* manager.go: the registry                                                *)
(***************************************************************************)
StatusWaiting == "waiting"
StatusActive == "active"
StatusFinished == "finished"

\* Identities a connection can present (handleWS refuses only the empty
\* one).  Spec runs with two ordinary names, SpecNames with one ordinary
\* name and the name StartBotGame gives its own opponent, SpecLate with the
\* two players of its session and an outsider.
BotName == "bot"
Users == {"a", "b"}
NameUsers == {"a", BotName}
LateUsers == {"a", "b", "c"}
AllUsers == Users \cup NameUsers \cup LateUsers

\* The nil *Player / the absent identity.
NoUser == ""

\* Sessions the model lets the registry create, and the discs on a board up
\* to which Spec goes on sending moves to its session.
MaxGames == 2
MaxDiscs == 1

\* Manager.reconnectAfter, in clock ticks.
ReconnectAfter == 1

(***************************************************************************)
(* Time.  The registry reads GameState.LastMoveAt in one place only,       *)
(* now.Sub(g.LastMoveAt) > m.reconnectAfter in SweepDisconnects, so the    *)
(* model keeps that difference instead of the two instants: field Idle is  *)
(* time.Now() - LastMoveAt in ticks, counted up to IdleCap, the first      *)
(* value past the window.  "g.LastMoveAt = time.Now()" is Idle = 0.        *)
(***************************************************************************)
IdleCap == ReconnectAfter + 1

\* Columns a move message may carry under Spec.
MoveCols == {-1, 3, 7}

VARIABLES
    waiting,        \* Manager.waiting: the waiting identity, or NoUser
    games,          \* Manager.games: session id -> GameState (ids 1, 2, ...)
    userToGame,     \* Manager.userToGame: identity -> session id, 0 absent
    onFinishRuns,   \* session id -> number of "go m.onFinish(game)" started
    ret,            \* the last call on the registry and what it returned
    grid,           \* SpecGrid: the board ApplyMove is applied to
    gres,           \* SpecGrid: the last ApplyMove call and its outcome
    drops,          \* SpecGrid: successful drops so far
    timers,         \* identities whose fallback timer is pending
    connections,    \* Server.connections: identity -> client (index), 0 absent
    clients         \* the wsClients created so far, in order of creation

vars == <<waiting, games, userToGame, onFinishRuns, ret, grid, gres, drops,
          timers, connections, clients>>
srvVars == <<timers, connections, clients>>
connVars == <<connections, clients>>
regVars == <<waiting, games, userToGame, onFinishRuns, ret>>
gridVars == <<grid, gres, drops>>

GameIDs == 1 .. Len(games)

NilPlayer == [Username |-> NoUser, Slot |-> 0, IsBot |-> FALSE]

\* What a call returned: game is the id of the *GameState (0: nil).
Ret(op, user, gameID, err, game, player, isWaiting, res) ==
    [op |-> op, user |-> user, gameID |-> gameID, err |-> err, game |-> game,
     player |-> player, waiting |-> isWaiting, res |-> res]

\* Abandon, MarkDisconnected and SweepDisconnects return nothing.
NoRet == Ret("none", NoUser, 0, NoErr, 0, NilPlayer, FALSE, ZeroResult)

\* A map literal with two entries: a repeated key keeps the later entry.
Map2(k1, v1, k2, v2) == (k2 :> v2) @@ (k1 :> v1)

\* g.Players[username], the zero value when absent.
PlayerOf(g, username) ==
    IF username \in DOMAIN g.Players THEN g.Players[username] ELSE NilPlayer

(***************************************************************************)
(* AssignPlayer                                                            *)
(***************************************************************************)
\* AssignPlayer and StartBotGame without lines 65-70 and 102-106: no session
\* is ever rejoined.
RejoinNever(username) == 0

\* Lines 65-70: the session username rejoins, 0 when there is none.
RejoinID(username) ==
    IF userToGame[username] # 0
          /\ userToGame[username] \in GameIDs
          /\ games[userToGame[username]].Status # StatusFinished
    THEN userToGame[username]
    ELSE 0

\* Lines 81-91 with the second caller moving first.
NewPairGameTurnB(id, opponent, username) ==
    [ID |-> id, Board |-> ZeroBoard, Status |-> StatusActive, Winner |-> NoUser,
     Turn |-> CellP2, Idle |-> 0,
     Players |-> Map2(opponent, [Username |-> opponent, Slot |-> CellP1, IsBot |-> FALSE],
                      username, [Username |-> username, Slot |-> CellP2, IsBot |-> FALSE]),
     Bot |-> 0]

\* Lines 81-91: the session pairing the waiting opponent with username.
NewPairGame(id, opponent, username) ==
    [ID |-> id, Board |-> ZeroBoard, Status |-> StatusActive, Winner |-> NoUser,
     Turn |-> CellP1, Idle |-> 0,
     Players |-> Map2(opponent, [Username |-> opponent, Slot |-> CellP1, IsBot |-> FALSE],
                      username, [Username |-> username, Slot |-> CellP2, IsBot |-> FALSE]),
     Bot |-> 0]

AssignPlayer(username) ==
    /\ UNCHANGED gridVars
    /\ IF RejoinID(username) # 0
       THEN /\ ret' = Ret("AssignPlayer", username, 0, NoErr, RejoinID(username),
                          PlayerOf(games[RejoinID(username)], username), FALSE, ZeroResult)
            /\ UNCHANGED <<waiting, games, userToGame, onFinishRuns>>
       ELSE IF waiting = NoUser
       THEN /\ waiting' = username
            /\ ret' = Ret("AssignPlayer", username, 0, NoErr, 0,
                          [Username |-> username, Slot |-> CellP1, IsBot |-> FALSE],
                          TRUE, ZeroResult)
            /\ UNCHANGED <<games, userToGame, onFinishRuns>>
       ELSE /\ Len(games) < MaxGames
            /\ LET id == Len(games) + 1
                   game == NewPairGame(id, waiting, username)
               IN  /\ waiting' = NoUser
                   /\ games' = Append(games, game)
                   /\ onFinishRuns' = Append(onFinishRuns, 0)
                   /\ userToGame' = [userToGame EXCEPT ![username] = id, ![waiting] = id]
                   /\ ret' = Ret("AssignPlayer", username, 0, NoErr, id,
                                 PlayerOf(game, username), FALSE, ZeroResult)

(***************************************************************************)
(* StartBotGame                                                            *)
(***************************************************************************)
\* Lines 108-121: the session of human against the embedded opponent.
NewBotGame(id, human) ==
    [ID |-> id, Board |-> ZeroBoard, Status |-> StatusActive, Winner |-> NoUser,
     Turn |-> CellP1, Idle |-> 0,
     Players |-> Map2(human, [Username |-> human, Slot |-> CellP1, IsBot |-> FALSE],
                      BotName, [Username |-> BotName, Slot |-> CellP2, IsBot |-> TRUE]),
     Bot |-> CellP2]

StartBotGame(human) ==
    /\ UNCHANGED <<waiting, gridVars>>
    /\ IF RejoinID(human) # 0
       THEN /\ ret' = Ret("StartBotGame", human, 0, NoErr, RejoinID(human),
                          NilPlayer, FALSE, ZeroResult)
            /\ UNCHANGED <<games, userToGame, onFinishRuns>>
       ELSE /\ Len(games) < MaxGames
            /\ LET id == Len(games) + 1
               IN  /\ games' = Append(games, NewBotGame(id, human))
                   /\ onFinishRuns' = Append(onFinishRuns, 0)
                   /\ userToGame' = [userToGame EXCEPT ![human] = id]
                   /\ ret' = Ret("StartBotGame", human, 0, NoErr, id,
                                 NilPlayer, FALSE, ZeroResult)

(***************************************************************************)
(* HandleMove                                                              *)
(***************************************************************************)
\* Lines 131-144 with the participant and turn checks (139-144) made before
\* the status check (135-137).
PreMoveErrPlayerFirst(username, gameID) ==
    IF gameID \notin GameIDs THEN ErrInvalidTurn
    ELSE IF username \notin DOMAIN games[gameID].Players THEN ErrInvalidTurn
    ELSE IF games[gameID].Turn # games[gameID].Players[username].Slot THEN ErrInvalidTurn
    ELSE IF games[gameID].Status = StatusFinished THEN ErrGameFinished
    ELSE NoErr

\* Lines 131-144 without the turn check (142-144).
PreMoveErrAnyTurn(username, gameID) ==
    IF gameID \notin GameIDs THEN ErrInvalidTurn
    ELSE IF games[gameID].Status = StatusFinished THEN ErrGameFinished
    ELSE IF username \notin DOMAIN games[gameID].Players THEN ErrInvalidTurn
    ELSE NoErr

\* Lines 131-144 without the status check (135-137).
PreMoveErrNoStatus(username, gameID) ==
    IF gameID \notin GameIDs THEN ErrInvalidTurn
    ELSE IF username \notin DOMAIN games[gameID].Players THEN ErrInvalidTurn
    ELSE IF games[gameID].Turn # games[gameID].Players[username].Slot THEN ErrInvalidTurn
    ELSE NoErr

\* Lines 131-144: the error found before the board is touched.
PreMoveErr(username, gameID) ==
    IF gameID \notin GameIDs THEN ErrInvalidTurn
    ELSE IF games[gameID].Status = StatusFinished THEN ErrGameFinished
    ELSE IF username \notin DOMAIN games[gameID].Players THEN ErrInvalidTurn
    ELSE IF games[gameID].Turn # games[gameID].Players[username].Slot THEN ErrInvalidTurn
    ELSE NoErr

\* Lines 164-168 left out: the turn stays.
NextTurnStays(turn) == turn

\* Lines 164-168.
NextTurn(turn) == IF turn = CellP1 THEN CellP2 ELSE CellP1

\* Lines 150, 157: does the result end the session?
Ends(res) == res.Winner # 0 \/ res.IsDraw

\* Lines 149-169 with the turn flipped in all three branches.
MovedFlipping(game, username, out) ==
    IF out.res.Winner # 0
    THEN [game EXCEPT !.Board = out.board, !.Idle = 0, !.Turn = NextTurn(game.Turn),
                      !.Status = StatusFinished, !.Winner = username]
    ELSE IF out.res.IsDraw
    THEN [game EXCEPT !.Board = out.board, !.Idle = 0, !.Turn = NextTurn(game.Turn),
                      !.Status = StatusFinished]
    ELSE [game EXCEPT !.Board = out.board, !.Idle = 0,
                      !.Turn = NextTurn(game.Turn)]

\* Lines 149-169: the session after an accepted move.
Moved(game, username, out) ==
    IF out.res.Winner # 0
    THEN [game EXCEPT !.Board = out.board, !.Idle = 0,
                      !.Status = StatusFinished, !.Winner = username]
    ELSE IF out.res.IsDraw
    THEN [game EXCEPT !.Board = out.board, !.Idle = 0,
                      !.Status = StatusFinished]
    ELSE [game EXCEPT !.Board = out.board, !.Idle = 0,
                      !.Turn = NextTurn(game.Turn)]

HandleMove(username, gameID, column) ==
    /\ UNCHANGED <<waiting, userToGame, gridVars>>
    /\ IF PreMoveErr(username, gameID) # NoErr
       THEN /\ ret' = Ret("HandleMove", username, gameID, PreMoveErr(username, gameID),
                          IF gameID \in GameIDs THEN gameID ELSE 0,
                          NilPlayer, FALSE, ZeroResult)
            /\ UNCHANGED <<games, onFinishRuns>>
       ELSE LET game == games[gameID]
                out == ApplyMove(game.Board, column, game.Players[username].Slot)
            IN  IF out.err # NoErr
                THEN /\ ret' = Ret("HandleMove", username, gameID, out.err, gameID,
                                   NilPlayer, FALSE, ZeroResult)
                     /\ games' = [games EXCEPT ![gameID].Board = out.board]
                     /\ UNCHANGED onFinishRuns
                ELSE /\ games' = [games EXCEPT ![gameID] = Moved(game, username, out)]
                     /\ onFinishRuns' = [onFinishRuns EXCEPT ![gameID] =
                                            IF Ends(out.res) THEN @ + 1 ELSE @]
                     /\ ret' = Ret("HandleMove", username, gameID, NoErr, gameID,
                                   NilPlayer, FALSE, out.res)

\* GameForUser: the session id a move message of username is sent to;
\* fallback is the gameId the connection was opened with.
GameForUser(username, fallback) ==
    IF userToGame[username] # 0 THEN userToGame[username] ELSE fallback

(***************************************************************************)
(* Abandon, MarkDisconnected, SweepDisconnects, the clock                  *)
(***************************************************************************)
Abandon(username) ==
    /\ userToGame' = [userToGame EXCEPT ![username] = 0]
    /\ waiting' = IF waiting # NoUser /\ waiting = username THEN NoUser ELSE waiting
    /\ ret' = NoRet
    /\ UNCHANGED <<games, onFinishRuns, gridVars>>

MarkDisconnected(username) ==
    /\ games' = IF userToGame[username] # 0 /\ userToGame[username] \in GameIDs
                THEN [games EXCEPT ![userToGame[username]].Idle = 0]
                ELSE games
    /\ ret' = NoRet
    /\ UNCHANGED <<waiting, userToGame, onFinishRuns, gridVars>>

\* Line 229 without "g.Status != StatusFinished".
StaleAnyStatus(g) == g.Idle > ReconnectAfter

\* Line 229 with the operands of Sub exchanged: a negative duration.
StaleNever(g) == g.Status # StatusFinished /\ 0 - g.Idle > ReconnectAfter

\* Line 229 with ">=" for ">".
StaleAtWindow(g) == g.Status # StatusFinished /\ g.Idle >= ReconnectAfter

\* Line 229: the sessions a sweep at time now forfeits.
Stale(g) == g.Status # StatusFinished /\ g.Idle > ReconnectAfter

\* findRemainingPlayer: the names a range over g.Players can return (Go
\* ranges over a map in no fixed order), "bot" when every player is a bot.
findRemainingPlayer(g) ==
    IF {name \in DOMAIN g.Players : ~g.Players[name].IsBot} = {}
    THEN {BotName}
    ELSE {name \in DOMAIN g.Players : ~g.Players[name].IsBot}

\* Lines 230-232.
Forfeit(g, winner) ==
    [g EXCEPT !.Status = StatusFinished, !.Winner = winner]

SweepDisconnects ==
    LET stale == {id \in GameIDs : Stale(games[id])}
    IN  /\ \E w \in [stale -> AllUsers] :
              /\ \A id \in stale : w[id] \in findRemainingPlayer(games[id])
              /\ games' = [id \in GameIDs |->
                              IF id \in stale THEN Forfeit(games[id], w[id])
                              ELSE games[id]]
        /\ onFinishRuns' = [id \in GameIDs |->
                              IF id \in stale THEN onFinishRuns[id] + 1
                              ELSE onFinishRuns[id]]
        /\ ret' = NoRet
        /\ UNCHANGED <<waiting, userToGame, gridVars>>

\* One tick of time passes between two calls.
Tick ==
    /\ games' = [id \in GameIDs |->
                    [games[id] EXCEPT !.Idle = IF @ < IdleCap THEN @ + 1 ELSE @]]
    /\ UNCHANGED <<waiting, userToGame, onFinishRuns, ret, gridVars>>

(***************************************************************************)
(* Spec: the registry from NewManager on                                   *)
(***************************************************************************)
Discs(board) == Cardinality({rc \in RowIdx \X ColIdx : board[rc[1]][rc[2]] # CellEmpty})

\* Spec stops sending moves to a session whose board holds MaxDiscs discs.
InPlay(gameID) == gameID \in GameIDs => Discs(games[gameID].Board) < MaxDiscs

(***************************************************************************)
(* The specifications.  Each Next sends the calls the server sends:        *)
(* AssignPlayer on a connection (readPump), StartBotGame from a fallback   *)
(* timer, HandleMove for a move message, to the session GameForUser names, *)
(* and for the embedded opponent (playBotTurn), MarkDisconnected when a    *)
(* connection closes, SweepDisconnects from the sweeper.  Nothing in the   *)
(* repository calls Abandon: only SpecAbandon sends it.                    *)
(***************************************************************************)
GridIdle ==
    /\ grid = ZeroBoard
    /\ gres = [col |-> -1, player |-> 0, out |-> ApplyMove(ZeroBoard, -1, 0)]
    /\ drops = 0

\* server.New: no connection, no timer.
New ==
    /\ timers = {}
    /\ connections = [u \in AllUsers |-> 0]
    /\ clients = <<>>

\* NewManager.
NewManager ==
    /\ waiting = NoUser
    /\ games = <<>>
    /\ userToGame = [u \in AllUsers |-> 0]
    /\ onFinishRuns = <<>>
    /\ ret = NoRet

Init == NewManager /\ GridIdle /\ New

Next ==
    \/ \E username \in Users :
          /\ AssignPlayer(username)
          /\ UNCHANGED srvVars
    \/ \E human \in Users :
          /\ StartBotGame(human)
          /\ UNCHANGED srvVars
    \/ \E username \in Users, fallback \in 0 .. MaxGames, column \in MoveCols :
          /\ InPlay(GameForUser(username, fallback))
          /\ HandleMove(username, GameForUser(username, fallback), column)
          /\ UNCHANGED srvVars
    \/ \E gameID \in GameIDs, column \in MoveCols :
          /\ games[gameID].Bot # 0
          /\ InPlay(gameID)
          /\ HandleMove(BotName, gameID, column)
          /\ UNCHANGED srvVars
    \/ \E username \in Users :
          /\ MarkDisconnected(username)
          /\ UNCHANGED srvVars
    \/ SweepDisconnects /\ UNCHANGED srvVars
    \/ Tick /\ UNCHANGED srvVars

Spec == Init /\ [][Next]_vars

\* The same calls, one of the identities being the opponent's name.
NextNames ==
    \/ \E username \in NameUsers :
          /\ AssignPlayer(username)
          /\ UNCHANGED srvVars
    \/ \E human \in NameUsers :
          /\ StartBotGame(human)
          /\ UNCHANGED srvVars
    \/ \E username \in NameUsers, fallback \in 0 .. MaxGames, column \in MoveCols :
          /\ InPlay(GameForUser(username, fallback))
          /\ HandleMove(username, GameForUser(username, fallback), column)
          /\ UNCHANGED srvVars
    \/ \E username \in NameUsers :
          /\ MarkDisconnected(username)
          /\ UNCHANGED srvVars
    \/ SweepDisconnects /\ UNCHANGED srvVars
    \/ Tick /\ UNCHANGED srvVars

SpecNames == Init /\ [][NextNames]_vars

(***************************************************************************)
(* SpecLate: a session of "a" against "b" late in a game: 36 moves played  *)
(* alternately from CellP1, ApplyMove having reported no winner, three     *)
(* columns still open (0, 4 and 5).  From here a game ends either way: in  *)
(* a reported win or with the board full.                                  *)
(***************************************************************************)
LateRows == <<<<0, 2, 1, 1, 0, 0, 2>>,
              <<0, 1, 2, 2, 2, 0, 2>>,
              <<0, 1, 2, 2, 1, 2, 1>>,
              <<1, 1, 1, 2, 1, 2, 1>>,
              <<2, 2, 1, 1, 2, 1, 2>>,
              <<1, 1, 2, 1, 2, 1, 2>>>>
LateBoard == [r \in RowIdx |-> [c \in ColIdx |-> LateRows[r + 1][c + 1]]]
LateCols == {-1, 0, 3, 4, 5, 7}

\* The mark of the n-th accepted move of a session: CellP1 moves first.
MarkOf(n) == IF n % 2 = 1 THEN CellP1 ELSE CellP2

LateGame ==
    [ID |-> 1, Board |-> LateBoard, Status |-> StatusActive,
     Winner |-> NoUser, Turn |-> MarkOf(Discs(LateBoard) + 1), Idle |-> 0,
     Players |-> Map2("a", [Username |-> "a", Slot |-> CellP1, IsBot |-> FALSE],
                      "b", [Username |-> "b", Slot |-> CellP2, IsBot |-> FALSE]),
     Bot |-> 0]

InitLate ==
    /\ waiting = NoUser
    /\ games = <<LateGame>>
    /\ userToGame = [u \in AllUsers |-> IF u \in {"a", "b"} THEN 1 ELSE 0]
    /\ onFinishRuns = <<0>>
    /\ ret = NoRet
    /\ GridIdle
    /\ New

\* The two players connect again; moves go to the session SpecLate starts
\* with, or to no session.
NextLate ==
    \/ \E username \in {"a", "b"} :
          /\ AssignPlayer(username)
          /\ UNCHANGED srvVars
    \/ \E username \in LateUsers, column \in LateCols :
          \E gameID \in {GameForUser(username, fallback) : fallback \in 0 .. 1} \cap (0 .. 1) :
              HandleMove(username, gameID, column) /\ UNCHANGED srvVars
    \/ \E username \in LateUsers :
          /\ MarkDisconnected(username)
          /\ UNCHANGED srvVars
    \/ SweepDisconnects /\ UNCHANGED srvVars
    \/ Tick /\ UNCHANGED srvVars

SpecLate == InitLate /\ [][NextLate]_vars

(***************************************************************************)
(* SpecAbandon: Spec with Abandon among the calls.                         *)
(***************************************************************************)
NextAbandon ==
    \/ \E username \in Users :
          /\ AssignPlayer(username)
          /\ UNCHANGED srvVars
    \/ \E human \in Users :
          /\ StartBotGame(human)
          /\ UNCHANGED srvVars
    \/ \E username \in Users, fallback \in 0 .. MaxGames, column \in MoveCols :
          /\ InPlay(GameForUser(username, fallback))
          /\ HandleMove(username, GameForUser(username, fallback), column)
          /\ UNCHANGED srvVars
    \/ \E gameID \in GameIDs, column \in MoveCols :
          /\ games[gameID].Bot # 0
          /\ InPlay(gameID)
          /\ HandleMove(BotName, gameID, column)
          /\ UNCHANGED srvVars
    \/ \E username \in Users :
          /\ Abandon(username)
          /\ UNCHANGED srvVars
    \/ \E username \in Users :
          /\ MarkDisconnected(username)
          /\ UNCHANGED srvVars
    \/ SweepDisconnects /\ UNCHANGED srvVars
    \/ Tick /\ UNCHANGED srvVars

SpecAbandon == Init /\ [][NextAbandon]_vars

(***************************************************************************)
(* SpecTimer: connections and their fallback timers.  readPump calls       *)
(* AssignPlayer for a new connection and, when the identity is told to     *)
(* wait, starts a one-shot timer; the timer's function asks GetGameByUser  *)
(* and calls StartBotGame only when that finds no session.  No moves are   *)
(* sent, so sessions finish by forfeit.                                    *)
(***************************************************************************)
\* GetGameByUser: the id of the session found, 0 for (nil, false).
GetGameByUser(username) ==
    IF userToGame[username] # 0 /\ userToGame[username] \in GameIDs
    THEN userToGame[username]
    ELSE 0

\* readPump, lines 427-441: AssignPlayer, and the timer started on "waiting".
readPump(username) ==
    /\ AssignPlayer(username)
    /\ timers' = IF ret'.waiting THEN timers \cup {username} ELSE timers

\* The function handed to time.AfterFunc, lines 432-441.
AfterFunc(username) ==
    /\ username \in timers
    /\ timers' = timers \ {username}
    /\ IF GetGameByUser(username) # 0
       THEN /\ ret' = Ret("GetGameByUser", username, 0, NoErr, GetGameByUser(username),
                          NilPlayer, FALSE, ZeroResult)
            /\ UNCHANGED <<waiting, games, userToGame, onFinishRuns, gridVars>>
       ELSE StartBotGame(username)

NextTimer ==
    \/ \E username \in Users : readPump(username) /\ UNCHANGED connVars
    \/ \E username \in Users : AfterFunc(username) /\ UNCHANGED connVars
    \/ \E username \in Users :
          /\ MarkDisconnected(username)
          /\ UNCHANGED srvVars
    \/ SweepDisconnects /\ UNCHANGED srvVars
    \/ Tick /\ UNCHANGED srvVars

SpecTimer == Init /\ [][NextTimer]_vars

(***************************************************************************)
(* The server: connections, their adapters and outbound queues.            *)
(* A wsClient is a record: username, send (the buffered channel, oldest    *)
(* message first), pc (where its readPump stands: "assign" before          *)
(* AssignPlayer, "read" in ReadMessage, "bot" between an accepted move and *)
(* playBotTurn, "done" after return), game (the session HandleMove         *)
(* returned to it last) and reads (inbound events read so far).            *)
(* Connections are opened without a gameId.  A message is its type and the *)
(* session, status and winner it carries.                                  *)
(***************************************************************************)
\* handleWS, line 383: make(chan []byte, 8).
SendCap == 8

MaxClients == 2
MaxReads == 2

\* Columns a move message carries under SpecServer.
SrvCols == {3, 7}

ClientIDs == 1 .. Len(clients)

\* The payloads of pushInit and broadcastState (499-510, 521-527).
Payload(type, g) ==
    [type |-> type, game |-> g.ID, status |-> g.Status, winner |-> g.Winner]

\* The "waiting" and "error" messages of readPump (431, 484).
Plain(type, text) ==
    [type |-> type, game |-> 0, status |-> text, winner |-> NoUser]

\* The select of 557-560 and 633-636 making room by dropping the oldest.
OfferDropOldest(queue, data) ==
    IF Len(queue) < SendCap THEN Append(queue, data) ELSE Append(Tail(queue), data)

\* select { case ch <- data: default: } (557-560, 633-636).
Offer(queue, data) ==
    IF Len(queue) < SendCap THEN Append(queue, data) ELSE queue

\* wsClient.sendJSON on client c.
sendJSON(cl, c, v) == [cl EXCEPT ![c].send = Offer(@, v)]

\* Server.sendToUser with the connections conns.
sendToUser(cl, conns, username, payload) ==
    IF conns[username] = 0 THEN cl ELSE sendJSON(cl, conns[username], payload)

\* Server.pushInit.
pushInit(cl, conns, g, username) ==
    sendToUser(cl, conns, username, Payload("init", g))

\* Server.broadcastState: sendToUser for every player not named "bot".
broadcastState(cl, conns, g) ==
    [c \in DOMAIN cl |->
        IF \E uname \in DOMAIN g.Players \ {BotName} : conns[uname] = c
        THEN [cl[c] EXCEPT !.send = Offer(@, Payload("state", g))]
        ELSE cl[c]]

\* Server.onFinish (576-611) counts the win, saves and publishes the game:
\* it sends nothing to any connection.
onFinish(cl, g) == cl

\* handleWS: a new client is registered and its pumps are started.
handleWS(username) ==
    /\ Len(clients) < MaxClients
    /\ clients' = Append(clients, [username |-> username, send |-> <<>>,
                                   pc |-> "assign", game |-> 0, reads |-> 0])
    /\ connections' = [connections EXCEPT ![username] = Len(clients) + 1]
    /\ UNCHANGED <<regVars, gridVars, timers>>

\* readPump, lines 428-457: AssignPlayer, then "waiting" and the timer, or
\* init to the caller and to the opponent when it has a connection.
readPumpAssign(c) ==
    /\ clients[c].pc = "assign"
    /\ readPump(clients[c].username)
    /\ LET username == clients[c].username
           cl == [clients EXCEPT ![c].pc = "read", ![c].game = ret'.game]
       IN  clients' =
             IF ret'.waiting
             THEN sendJSON(cl, c, Plain("waiting", "waiting for opponent"))
             ELSE LET g == games'[ret'.game]
                      own == pushInit(cl, connections, g, username)
                      peers == {uname \in DOMAIN g.Players :
                                   /\ uname # username
                                   /\ ~g.Players[uname].IsBot
                                   /\ connections[uname] # 0}
                  IN  [k \in DOMAIN own |->
                          IF \E uname \in peers : connections[uname] = k
                          THEN [own[k] EXCEPT !.send = Offer(@, Payload("init", g))]
                          ELSE own[k]]
    /\ UNCHANGED connections

\* Line 488 comparing g.Turn with the mark of the human.
BotToMoveOnHumanTurn(g) ==
    /\ g.Bot # 0
    /\ g.Status = StatusActive
    /\ g.Turn = Opponent(PlayerOf(g, BotName).Slot)

\* Line 488: the embedded opponent is to move.
BotToMove(g) ==
    /\ g.Bot # 0
    /\ g.Status = StatusActive
    /\ g.Turn = PlayerOf(g, BotName).Slot

\* readPump, lines 462 and 468-490: a move message is read and handled.
readMove(c, column) ==
    /\ clients[c].pc = "read"
    /\ LET username == clients[c].username
           gameID == GameForUser(username, 0)
       IN  /\ HandleMove(username, gameID, column)
           /\ clients' =
                IF ret'.err # NoErr
                THEN sendJSON([clients EXCEPT ![c].reads = @ + 1], c,
                              Plain("error", ret'.err))
                ELSE broadcastState(
                        [clients EXCEPT ![c].reads = @ + 1,
                                        ![c].game = gameID,
                                        ![c].pc = IF BotToMove(games'[gameID])
                                                  THEN "bot" ELSE "read"],
                        connections, games'[gameID])
    /\ UNCHANGED <<timers, connections>>

\* playBotTurn, called at line 489 with the session of the accepted move.
playBotTurn(c) ==
    /\ clients[c].pc = "bot"
    /\ LET g == games[clients[c].game]
       IN  /\ HandleMove(BotName, g.ID, ChooseMove(g.Board, g.Bot))
           /\ clients' =
                IF ret'.err # NoErr
                THEN [clients EXCEPT ![c].pc = "read"]
                ELSE broadcastState([clients EXCEPT ![c].pc = "read"],
                                    connections, games'[g.ID])
    /\ UNCHANGED <<timers, connections>>

\* readPump, lines 463-466, and the deferred unregister (399-404): the
\* connection is closed.
readError(c) ==
    /\ clients[c].pc = "read"
    /\ MarkDisconnected(clients[c].username)
    /\ connections' = [connections EXCEPT ![clients[c].username] = 0]
    /\ clients' = [clients EXCEPT ![c].pc = "done"]
    /\ UNCHANGED timers

\* writePump: the oldest queued message is written to the connection.
writePump(c) ==
    /\ clients[c].send # <<>>
    /\ clients' = [clients EXCEPT ![c].send = Tail(@)]
    /\ UNCHANGED <<regVars, gridVars, timers, connections>>

\* The timer of lines 432-441 with its pushInit.
fallbackTimer(username) ==
    /\ AfterFunc(username)
    /\ clients' = IF ret'.op = "StartBotGame"
                  THEN pushInit(clients, connections, games'[ret'.game], username)
                  ELSE clients
    /\ UNCHANGED connections

\* Server.sweeper: SweepDisconnects, which starts onFinish for each forfeit.
sweeper ==
    /\ SweepDisconnects
    /\ clients' = onFinish(clients, games')
    /\ UNCHANGED <<timers, connections>>

NextServer ==
    \/ \E username \in Users : handleWS(username)
    \/ \E c \in ClientIDs : readPumpAssign(c)
    \/ \E c \in ClientIDs : readError(c)
    \/ \E c \in ClientIDs : writePump(c)
    \/ \E username \in Users : fallbackTimer(username)
    \/ sweeper
    \/ Tick /\ UNCHANGED srvVars

SpecServer == Init /\ [][NextServer]_vars

\* SpecServer with the ticker of the sweeper (324-327) and the clock going
\* on for ever.
SpecSweep ==
    /\ Init
    /\ [][NextServer]_vars
    /\ WF_vars(sweeper)
    /\ WF_vars(Tick /\ UNCHANGED srvVars)

(***************************************************************************)
(* SpecBot: one identity, "a", its connections, its fallback timer and its *)
(* moves, each connection delivering up to MaxReads messages.  Nothing is  *)
(* taken from the queues: the connections are slow.                        *)
(***************************************************************************)
NextBot ==
    \/ handleWS("a")
    \/ \E c \in ClientIDs : readPumpAssign(c)
    \/ \E c \in ClientIDs, column \in SrvCols :
          /\ clients[c].reads < MaxReads
          /\ readMove(c, column)
    \/ \E c \in ClientIDs : playBotTurn(c)
    \/ \E c \in ClientIDs : readError(c)
    \/ fallbackTimer("a")
    \/ sweeper
    \/ Tick /\ UNCHANGED srvVars

SpecBot == Init /\ [][NextBot]_vars

(***************************************************************************)
(* SpecQueue: the session of SpecLate with both players connected and      *)
(* reading, their queues empty.  "a" sends moves for column 0 (playable),  *)
(* "b" sends moves for column 7 (no column), up to QueueReads messages     *)
(* each, so that a queue fills with error messages while the other player  *)
(* moves; connections close and writePump drains the queues at any time.   *)
(***************************************************************************)
QueueReads == 9

QueueCols(username) == IF username = "a" THEN {0} ELSE {7}

InitQueue ==
    /\ waiting = NoUser
    /\ games = <<LateGame>>
    /\ userToGame = [u \in AllUsers |-> IF u \in {"a", "b"} THEN 1 ELSE 0]
    /\ onFinishRuns = <<0>>
    /\ ret = NoRet
    /\ GridIdle
    /\ timers = {}
    /\ connections = [u \in AllUsers |-> IF u = "a" THEN 1 ELSE IF u = "b" THEN 2 ELSE 0]
    /\ clients = <<[username |-> "a", send |-> <<>>, pc |-> "read", game |-> 1, reads |-> 0],
                   [username |-> "b", send |-> <<>>, pc |-> "read", game |-> 1, reads |-> 0]>>

NextQueue ==
    \/ \E c \in ClientIDs :
          \E column \in QueueCols(clients[c].username) :
              /\ clients[c].reads < QueueReads
              /\ readMove(c, column)
    \/ \E c \in ClientIDs : readError(c)
    \/ \E c \in ClientIDs : writePump(c)

SpecQueue == InitQueue /\ [][NextQueue]_vars

(***************************************************************************)
(* SpecGrid: ApplyMove applied to the boards that up to MaxDrops drops of  *)
(* either mark build on the empty board, on two staircases (the support a  *)
(* diagonal needs) and on a board with one column left to fill.            *)
(***************************************************************************)
MaxDrops == 4
GridCols == {-1, 0, 1, 2, 3, 5, 7}

RECURSIVE Dropped(_, _)
\* The board after the drops <<col, mark>> of seq.
Dropped(b, seq) ==
    IF seq = <<>> THEN b
    ELSE Dropped(ApplyMove(b, Head(seq)[1], Head(seq)[2]).board, Tail(seq))

StairUp == Dropped(ZeroBoard, <<<<1, 2>>, <<2, 1>>, <<2, 2>>, <<3, 2>>, <<3, 1>>, <<3, 2>>>>)
StairDown == Dropped(ZeroBoard, <<<<2, 2>>, <<1, 1>>, <<1, 2>>, <<0, 2>>, <<0, 1>>, <<0, 2>>>>)

\* The board of a game after 39 moves played alternately from CellP1,
\* ApplyMove having reported no winner: column 5 alone is open.
LastColumnRows == <<<<1, 2, 1, 1, 2, 0, 2>>,
                    <<2, 1, 2, 2, 1, 0, 2>>,
                    <<2, 1, 2, 2, 1, 0, 1>>,
                    <<1, 1, 1, 2, 1, 2, 1>>,
                    <<2, 2, 1, 1, 2, 1, 2>>,
                    <<1, 1, 2, 1, 2, 1, 2>>>>
LastColumn == [r \in RowIdx |-> [c \in ColIdx |-> LastColumnRows[r + 1][c + 1]]]

GridSeeds == {ZeroBoard, StairUp, StairDown, LastColumn}

GridApply(col, player) ==
    /\ drops < MaxDrops
    /\ LET out == ApplyMove(grid, col, player)
       IN  /\ grid' = out.board
           /\ gres' = [col |-> col, player |-> player, out |-> out]
           /\ drops' = IF out.err = NoErr THEN drops + 1 ELSE drops
    /\ UNCHANGED regVars

InitGrid ==
    /\ NewManager
    /\ grid \in GridSeeds
    /\ gres = [col |-> -1, player |-> 0, out |-> ApplyMove(ZeroBoard, -1, 0)]
    /\ drops = 0
    /\ New

NextGrid ==
    \E col \in GridCols, player \in {CellP1, CellP2} :
        GridApply(col, player) /\ UNCHANGED srvVars

SpecGrid == InitGrid /\ [][NextGrid]_vars

(***************************************************************************)
(* Properties of AssignPlayer (checked under Spec)                         *)
(***************************************************************************)
\* username is a participant-by-index of a session that is not finished.
InLiveGame(username) ==
    /\ userToGame[username] \in GameIDs
    /\ games[userToGame[username]].Status # StatusFinished

\* The step is a call of AssignPlayer: the call ret' records.
AssignStep == ret'.op = "AssignPlayer" /\ AssignPlayer(ret'.user)

\* The step is a first call by u1 with nobody waiting: it returns
\* isWaiting = true and no session.
FirstWaits(u1) ==
    waiting = NoUser => (ret'.waiting /\ ret'.game = 0 /\ waiting' = u1)

\* The last call was u1's, which was told to wait, and the step is the call
\* of u2: it returns a new active session of both, u1 with CellP1 and u2
\* with CellP2, CellP1 to move, and nobody waits afterwards.
SecondPairs(u1, u2) ==
    (ret.op = "AssignPlayer" /\ ret.user = u1 /\ ret.waiting /\ u1 # u2)
        => /\ ~ret'.waiting
           /\ ret'.game = Len(games) + 1
           /\ Len(games') = Len(games) + 1
           /\ SubSeq(games', 1, Len(games)) = games
           /\ LET g == games'[Len(games')]
              IN  /\ g.Status = StatusActive
                  /\ g.Turn = CellP1
                  /\ g.Board = ZeroBoard
                  /\ DOMAIN g.Players = {u1, u2}
                  /\ g.Players[u1].Slot = CellP1
                  /\ g.Players[u2].Slot = CellP2
           /\ ret'.player.Username = u2
           /\ ret'.player.Slot = CellP2
           /\ waiting' = NoUser

\* C1 as written: nobody waiting, then AssignPlayer by two distinct
\* identities one after the other: the first is told to wait and gets no
\* session, the second gets a new active session of both, the first with
\* CellP1, the second with CellP2, CellP1 to move, and nobody waits
\* afterwards.
C1_AsWritten ==
    [][AssignStep => (FirstWaits(ret'.user) /\ SecondPairs(ret.user, ret'.user))]_vars

\* C1, amended: the same, for two identities neither of which is in a
\* session that is not finished when it calls.
C1_PairsInOrder ==
    [][(AssignStep /\ ~InLiveGame(ret'.user))
          => (FirstWaits(ret'.user) /\ SecondPairs(ret.user, ret'.user))]_vars

\* Both orders have happened: session 1 pairs "a" (first) with "b", session
\* 2, just returned to "a", pairs "b" (first) with "a".
C1_Paired ==
    /\ Len(games) = 2
    /\ ret.op = "AssignPlayer" /\ ret.user = "a" /\ ret.game = 2 /\ ~ret.waiting
    /\ DOMAIN games[1].Players = {"a", "b"}
    /\ games[1].Players["a"].Slot = CellP1 /\ games[1].Players["b"].Slot = CellP2
    /\ DOMAIN games[2].Players = {"a", "b"}
    /\ games[2].Players["b"].Slot = CellP1 /\ games[2].Players["a"].Slot = CellP2
    /\ games[2].Status = StatusActive /\ games[2].Board = ZeroBoard
    /\ waiting = NoUser

\* C2: AssignPlayer by an identity that userToGame maps to a session that is
\* not finished returns that session, isWaiting = false and the identity's
\* player, and changes nothing: no session is added, no session changes,
\* waiting and userToGame stay as they are, no finish callback starts.
C2_RejoinChangesNothing ==
    [][(AssignStep /\ InLiveGame(ret'.user))
          => /\ ret'.game = userToGame[ret'.user]
             /\ ~ret'.waiting
             /\ ret'.player = games[userToGame[ret'.user]].Players[ret'.user]
             /\ UNCHANGED <<waiting, games, userToGame, onFinishRuns>>]_vars

\* A session with a disc on its board has just been returned to one of its
\* players by AssignPlayer.
C2_Rejoined ==
    /\ ret.op = "AssignPlayer" /\ ~ret.waiting
    /\ ret.game \in GameIDs
    /\ games[ret.game].Board # ZeroBoard
    /\ games[ret.game].Status = StatusActive
    /\ userToGame[ret.user] = ret.game

(***************************************************************************)
(* Properties of HandleMove (checked under SpecLate)                       *)
(***************************************************************************)
ColumnErrs == {ErrColumnFull, ErrInvalidCol}

\* The step is a call of HandleMove for column col: the call ret' records.
MoveStep(col) == ret'.op = "HandleMove" /\ HandleMove(ret'.user, ret'.gameID, col)

\* The last call was a HandleMove of one player of a session, the step is
\* a HandleMove of the other player on the same session; the session was
\* active before the first of the two (it went through or failed on the
\* turn) and both name a column that can be played.
TwoMoves(col) ==
    /\ ret.op = "HandleMove" /\ ret.gameID = ret'.gameID
    /\ ret.err \in {NoErr, ErrInvalidTurn}
    /\ MoveStep(col)
    /\ ret.gameID \in GameIDs
    /\ ret.user # ret'.user
    /\ DOMAIN games[ret.gameID].Players = {ret.user, ret'.user}
    /\ ret'.err \notin ColumnErrs

\* C3 as written: of the moves the two players of an active session submit
\* at once (two HandleMove calls, one after the other), exactly one is
\* accepted and the other fails with ErrInvalidTurn.
C3_AsWritten ==
    [][\A col \in LateCols :
              TwoMoves(col)
                  => \/ ret.err = NoErr /\ ret'.err = ErrInvalidTurn
                     \/ ret.err = ErrInvalidTurn /\ ret'.err = NoErr]_vars

\* C3, amended: the call of the player whose turn it is is accepted.  The
\* other player's call fails with ErrInvalidTurn only if it is served first;
\* served second, it is accepted too when the first move left the session
\* active (the turn is then its own), and fails with ErrGameFinished when
\* the first move ended the session.
C3_ByServingOrder ==
    [][\A col \in LateCols :
              TwoMoves(col)
                  => /\ ret.err = ErrInvalidTurn => ret'.err = NoErr
                     /\ (ret.err = NoErr /\ ~Ends(ret.res)) => ret'.err = NoErr
                     /\ (ret.err = NoErr /\ Ends(ret.res)) => ret'.err = ErrGameFinished]_vars

\* Two moves have been accepted in a row, the second just now.
C3_BothAccepted ==
    /\ ret.op = "HandleMove" /\ ret.err = NoErr /\ ret.gameID = 1
    /\ Discs(games[1].Board) = Discs(LateBoard) + 2

\* C4: an accepted HandleMove does one of three things to its session: when
\* ApplyMove reports a winner, Status becomes finished, Winner the caller,
\* Turn stays; when it reports a draw, Status becomes finished, Winner
\* stays empty, Turn stays; otherwise Status stays active and Turn becomes
\* the other mark.
C4_OneOfThreeEffects ==
    [][\A col \in LateCols :
          (MoveStep(col) /\ ret'.err = NoErr)
              => LET u == ret'.user
                     old == games[ret'.gameID]
                     new == games'[ret'.gameID]
                     out == ApplyMove(old.Board, col, old.Turn)
                 IN  /\ new.Board = out.board
                     /\ IF out.res.Winner # 0
                        THEN /\ new.Status = StatusFinished
                             /\ new.Winner = u
                             /\ new.Turn = old.Turn
                        ELSE IF out.res.IsDraw
                        THEN /\ new.Status = StatusFinished
                             /\ new.Winner = NoUser
                             /\ new.Turn = old.Turn
                        ELSE /\ new.Status = StatusActive
                             /\ new.Winner = NoUser
                             /\ new.Turn # old.Turn
                             /\ new.Turn \in {CellP1, CellP2}]_vars

\* The move that filled the board has been accepted: a draw.
C4_Drawn ==
    /\ ret.op = "HandleMove" /\ ret.err = NoErr /\ ret.res.IsDraw
    /\ games[1].Status = StatusFinished /\ games[1].Winner = NoUser
    /\ Discs(games[1].Board) = Rows * Columns

\* C5: a HandleMove that fails (ErrInvalidTurn, ErrGameFinished,
\* ErrInvalidCol or ErrColumnFull) leaves every session as it was, board,
\* Turn, Status, Winner and the time of the last move, and starts no finish
\* callback.
C5_RejectedChangesNothing ==
    [][\A col \in LateCols :
          (MoveStep(col) /\ ret'.err # NoErr)
              => /\ ret'.err \in {ErrInvalidTurn, ErrGameFinished, ErrInvalidCol, ErrColumnFull}
                 /\ games' = games
                 /\ onFinishRuns' = onFinishRuns]_vars

\* The player to move has just been refused a full column, some time after
\* the last accepted move.
C5_ColumnRefused ==
    /\ ret.op = "HandleMove" /\ ret.err = ErrColumnFull
    /\ games[1].Status = StatusActive /\ games[1].Idle > 0
    /\ Discs(games[1].Board) > Discs(LateBoard)

\* C6 as written: HandleMove fails with ErrInvalidTurn whenever the session
\* id is unknown, or the caller is no player of the session, or it is not
\* the caller's turn, whatever the session's Status; ErrGameFinished goes
\* only to a player of a finished session.
C6_AsWritten ==
    [][\A col \in LateCols :
          MoveStep(col)
              => LET u == ret'.user
                     g == ret'.gameID
                 IN
                 /\ (\/ g \notin GameIDs
                     \/ u \notin DOMAIN games[g].Players
                     \/ games[g].Players[u].Slot # games[g].Turn)
                        => ret'.err = ErrInvalidTurn
                 /\ ret'.err = ErrGameFinished
                        => /\ g \in GameIDs
                           /\ games[g].Status = StatusFinished
                           /\ u \in DOMAIN games[g].Players]_vars

\* C6, amended: HandleMove fails with ErrInvalidTurn when the session id is
\* unknown, and when the session is not finished and the caller is no
\* player of it or it is not the caller's turn; on a finished session it
\* fails with ErrGameFinished whoever calls, and only then.
C6_FinishedFirst ==
    [][\A col \in LateCols :
          MoveStep(col)
              => LET u == ret'.user
                     g == ret'.gameID
                 IN
                 /\ g \notin GameIDs => ret'.err = ErrInvalidTurn
                 /\ (g \in GameIDs /\ games[g].Status = StatusFinished)
                        => ret'.err = ErrGameFinished
                 /\ (g \in GameIDs /\ games[g].Status # StatusFinished
                        /\ (\/ u \notin DOMAIN games[g].Players
                            \/ games[g].Players[u].Slot # games[g].Turn))
                        => ret'.err = ErrInvalidTurn
                 /\ ret'.err = ErrGameFinished
                        => (g \in GameIDs /\ games[g].Status = StatusFinished)]_vars

\* An identity that is no player of a finished session has just been
\* answered ErrGameFinished.
C6_OutsiderToldFinished ==
    /\ ret.op = "HandleMove" /\ ret.err = ErrGameFinished
    /\ ret.gameID \in GameIDs
    /\ ret.user \notin DOMAIN games[ret.gameID].Players

\* C7: whatever the order of HandleMove, SweepDisconnects, MarkDisconnected
\* and AssignPlayer calls, the finish callback has been started once for
\* every finished session and never for any other: not a second time by a
\* later sweep or a later move.
C7_FinishOnce ==
    \A id \in GameIDs :
        onFinishRuns[id] = IF games[id].Status = StatusFinished THEN 1 ELSE 0

\* The session ended in a win, has since grown older than the window, and
\* a move on it has just been refused.
C7_FinishedAndAged ==
    /\ games[1].Status = StatusFinished /\ games[1].Winner # NoUser
    /\ Discs(games[1].Board) > Discs(LateBoard)
    /\ games[1].Idle > ReconnectAfter
    /\ onFinishRuns[1] = 1
    /\ ret.op = "HandleMove" /\ ret.err = ErrGameFinished

(***************************************************************************)
(* Properties of SweepDisconnects and StartBotGame (checked under          *)
(* SpecNames)                                                              *)
(***************************************************************************)
\* The players of g that are not the embedded opponent.
Humans(g) == {name \in DOMAIN g.Players : ~g.Players[name].IsBot}

\* C8: SweepDisconnects finishes the sessions that are not finished and are
\* older than the reconnection window, and no other: each of them gets
\* Status finished and for Winner a player of the session that is not the
\* embedded opponent; every other session stays as it is.
C8_SweepForfeitsToHuman ==
    [][(ret' = NoRet /\ SweepDisconnects)
          => \A id \in GameIDs :
                IF games[id].Status # StatusFinished /\ games[id].Idle > ReconnectAfter
                THEN /\ games'[id].Status = StatusFinished
                     /\ games'[id].Winner \in Humans(games[id])
                ELSE games'[id] = games[id]]_vars

\* C9: StartBotGame for an identity that userToGame maps to a session that
\* is not finished returns that session and changes nothing; for any other
\* identity it adds one active session, the identity in it with CellP1 and
\* not as the embedded opponent, an embedded opponent with CellP2, CellP1 to
\* move, and maps the identity, and only it, to the new session.
C9_StartBotGame ==
    [][(ret'.op = "StartBotGame" /\ StartBotGame(ret'.user))
          => LET human == ret'.user
                 id == Len(games) + 1
             IN  IF InLiveGame(human)
                 THEN /\ ret'.game = userToGame[human]
                      /\ UNCHANGED <<waiting, games, userToGame, onFinishRuns>>
                 ELSE /\ ret'.game = id
                      /\ Len(games') = id
                      /\ SubSeq(games', 1, Len(games)) = games
                      /\ games'[id].Status = StatusActive
                      /\ games'[id].Turn = CellP1
                      /\ games'[id].Board = ZeroBoard
                      /\ human \in Humans(games'[id])
                      /\ games'[id].Players[human].Slot = CellP1
                      /\ \E o \in DOMAIN games'[id].Players :
                            /\ games'[id].Players[o].IsBot
                            /\ games'[id].Players[o].Slot = CellP2
                      /\ userToGame' = [userToGame EXCEPT ![human] = id]
                      /\ waiting' = waiting]_vars

(***************************************************************************)
(* Properties of ApplyMove (checked under SpecGrid)                        *)
(***************************************************************************)
RECURSIVE RunFrom(_, _, _, _, _, _)
\* The cells of player in a row from (r, c) on, stepping by (dx, dy).
RunFrom(board, player, r, c, dx, dy) ==
    IF InBoard(r, c) /\ board[r][c] = player
    THEN 1 + RunFrom(board, player, r + dx, c + dy, dx, dy)
    ELSE 0

\* The length of the line of player's cells through (row, col) along
\* (dx, dy), counted to both sides.
LineThrough(board, row, col, player, dx, dy) ==
    1 + RunFrom(board, player, row + dx, col + dy, dx, dy)
      + RunFrom(board, player, row - dx, col - dy, -dx, -dy)

\* The cell just written is part of four or more cells of its mark in a
\* line: vertical, horizontal or diagonal.
FourThroughPlaced ==
    /\ gres.out.err = NoErr
    /\ \E i \in 1 .. Len(directions) :
          LineThrough(gres.out.board, gres.out.row, gres.col, gres.player,
                      directions[i][1], directions[i][2]) >= 4

\* C10: whenever a drop makes the cell written part of four or more cells
\* of its mark in an unbroken line (vertical, horizontal or diagonal, the
\* cell anywhere in the line), ApplyMove reports the mark as Winner, with
\* at least 4 Winning coordinates, the cell written among them.
C10_WinDetected ==
    FourThroughPlaced
        => /\ gres.out.res.Winner = gres.player
           /\ Len(gres.out.res.Winning) >= 4
           /\ \E k \in 1 .. Len(gres.out.res.Winning) :
                 gres.out.res.Winning[k] = <<gres.out.row, gres.col>>

\* The cells of the unbroken line of player's cells through (row, col)
\* along (dx, dy).
RunCells(board, row, col, player, dx, dy) ==
    LET fwd == RunFrom(board, player, row + dx, col + dy, dx, dy)
        back == RunFrom(board, player, row - dx, col - dy, -dx, -dy)
    IN  {<<row + k * dx, col + k * dy>> : k \in (0 - back) .. fwd}

\* The elements of a sequence.
Range(seq) == {seq[k] : k \in 1 .. Len(seq)}

\* C11: whenever ApplyMove reports a winner, Winning is the unbroken line
\* of the winner's cells through the cell written, along one direction:
\* each cell of that line once, no other cell, four cells or more; and a
\* cell written whose line is shorter than four in every direction gives
\* no winner.
C11_WinningIsTheRun ==
    gres.out.err = NoErr
        => /\ gres.out.res.Winner # 0
                 => /\ gres.out.res.Winner = gres.player
                    /\ \E i \in 1 .. Len(directions) :
                          LET cells == RunCells(gres.out.board, gres.out.row, gres.col,
                                                gres.player, directions[i][1], directions[i][2])
                          IN  /\ Range(gres.out.res.Winning) = cells
                              /\ Len(gres.out.res.Winning) = Cardinality(cells)
                              /\ Cardinality(cells) >= 4
                              /\ \A rc \in cells : gres.out.board[rc[1]][rc[2]] = gres.player
           /\ ~FourThroughPlaced => gres.out.res.Winner = 0

\* The step is a call of ApplyMove on grid: the call gres' records.
GridStep == GridApply(gres'.col, gres'.player)

\* The cells in which two boards differ.
Changed(b1, b2) == {rc \in RowIdx \X ColIdx : b1[rc[1]][rc[2]] # b2[rc[1]][rc[2]]}

\* C12: ApplyMove on a column of the board with an empty cell succeeds and
\* changes one cell, the lowest empty cell of the column, to the mark; on a
\* column without an empty cell it fails with ErrColumnFull, on a column
\* outside 0 .. Columns-1 with ErrInvalidCol, and the board stays as it is.
C12_Gravity ==
    [][GridStep
          => LET col == gres'.col
                 out == gres'.out
             IN  IF col \notin ColIdx
                 THEN out.err = ErrInvalidCol /\ grid' = grid
                 ELSE IF \A r \in RowIdx : grid[r][col] # CellEmpty
                 THEN out.err = ErrColumnFull /\ grid' = grid
                 ELSE /\ out.err = NoErr
                      /\ Changed(grid, grid') = {<<out.row, col>>}
                      /\ grid[out.row][col] = CellEmpty
                      /\ grid'[out.row][col] = gres'.player
                      /\ \A r \in RowIdx : r > out.row => grid[r][col] # CellEmpty
                      /\ \A r \in RowIdx : r < out.row => grid[r][col] = CellEmpty
                      /\ out.res.Board = grid']_vars

\* A column has been filled to the top and a further drop into it has just
\* been refused.
C12_FullColumnRefused ==
    /\ gres.out.err = ErrColumnFull
    /\ gres.col \in ColIdx
    /\ \A r \in RowIdx : grid[r][gres.col] # CellEmpty
    /\ drops > 0

\* Some four cells in a line on the board hold the same mark.
AnyFour(board) ==
    \E rc \in RowIdx \X ColIdx : \E i \in 1 .. Len(directions) :
        /\ board[rc[1]][rc[2]] # CellEmpty
        /\ RunFrom(board, board[rc[1]][rc[2]], rc[1], rc[2],
                   directions[i][1], directions[i][2]) >= 4

\* No cell of the board is empty.
Full(board) == \A rc \in RowIdx \X ColIdx : board[rc[1]][rc[2]] # CellEmpty

\* C13: a successful ApplyMove that leaves the board full, with no four
\* cells of one mark in a line on it, reports a draw and no winner; one
\* that leaves a cell of the top row empty never reports a draw.
C13_DrawDetected ==
    gres.out.err = NoErr
        => /\ (Full(gres.out.board) /\ ~AnyFour(gres.out.board))
                 => (gres.out.res.IsDraw /\ gres.out.res.Winner = 0)
           /\ (\E c \in ColIdx : gres.out.board[0][c] = CellEmpty)
                 => ~gres.out.res.IsDraw

(***************************************************************************)
(* Properties of Bot.ChooseMove (checked under SpecGrid, for the Bot of    *)
(* StartBotGame, whose mark is CellP2, on the board grid)                  *)
(***************************************************************************)
\* A drop of player into col makes four or more of its cells in a line.
Completes(board, col, player) ==
    /\ \E r \in RowIdx : board[r][col] = CellEmpty
    /\ LET row == CHOOSE r \in RowIdx :
                     /\ board[r][col] = CellEmpty
                     /\ \A q \in RowIdx : q > r => board[q][col] # CellEmpty
           nb == [board EXCEPT ![row][col] = player]
       IN  \E i \in 1 .. Len(directions) :
              LineThrough(nb, row, col, player, directions[i][1], directions[i][2]) >= 4

\* The columns in which player has three in a line and the fourth cell of
\* the line is the cell a drop lands on.
WinningCols(board, player) == {col \in ColIdx : Completes(board, col, player)}

\* The least of a set of columns.
Lowest(cols) == CHOOSE col \in cols : \A other \in cols : col <= other

\* C14: whenever the opponent has three of its marks in a line and the
\* fourth cell of the line can be played at once, on whichever side of the
\* three it lies, ChooseMove returns the lowest column that completes a
\* four for the opponent.
C14_BotTakesWin ==
    WinningCols(grid, CellP2) # {}
        => ChooseMove(grid, CellP2) = Lowest(WinningCols(grid, CellP2))

\* C15: whenever the opponent has no column that wins at once and the
\* adversary has three in a line with the fourth cell playable at once,
\* ChooseMove returns the lowest column that blocks such a line.
C15_BotBlocks ==
    (WinningCols(grid, CellP2) = {} /\ WinningCols(grid, CellP1) # {})
        => ChooseMove(grid, CellP2) = Lowest(WinningCols(grid, CellP1))

\* The first column of the order 3, 2, 4, 1, 5, 0, 6 with an empty top cell.
FirstPreferred(board) ==
    LET order == <<3, 2, 4, 1, 5, 0, 6>>
        open == {i \in 1 .. 7 : board[0][order[i]] = CellEmpty}
    IN  order[CHOOSE i \in open : \A j \in open : i <= j]

\* C16: on every board that is not full ChooseMove returns a column whose
\* top cell is empty; when neither side has a column that wins at once it
\* returns the first playable column of the order 3, 2, 4, 1, 5, 0, 6.
C16_BotDefault ==
    ~Full(grid)
        => /\ ChooseMove(grid, CellP2) \in ColIdx
           /\ grid[0][ChooseMove(grid, CellP2)] = CellEmpty
           /\ (WinningCols(grid, CellP2) = {} /\ WinningCols(grid, CellP1) = {})
                 => ChooseMove(grid, CellP2) = FirstPreferred(grid)

\* C16, the part that holds of the code: on every board that is not full
\* ChooseMove returns a column whose top cell is empty.
C16_BotPlaysOpenColumn ==
    ~Full(grid)
        => /\ ChooseMove(grid, CellP2) \in ColIdx
           /\ grid[0][ChooseMove(grid, CellP2)] = CellEmpty

(***************************************************************************)
(* Invariants of the sessions                                              *)
(***************************************************************************)
\* C17: in every session that is not finished, Turn is the Slot of one of
\* the session's players.
C17_TurnHasPlayer ==
    \A id \in GameIDs :
        games[id].Status # StatusFinished
            => \E name \in DOMAIN games[id].Players :
                  games[id].Players[name].Slot = games[id].Turn

\* The cells of the board that hold mark.
Marks(board, mark) ==
    Cardinality({rc \in RowIdx \X ColIdx : board[rc[1]][rc[2]] = mark})

\* C18: in every session that is not finished, the board holds as many
\* cells of CellP1 as of CellP2 when Turn is CellP1, and one more when Turn
\* is CellP2: the accepted moves alternate, CellP1 first.
C18_MarksAlternate ==
    \A id \in GameIDs :
        games[id].Status # StatusFinished
            => /\ games[id].Turn \in {CellP1, CellP2}
               /\ Marks(games[id].Board, CellP1) - Marks(games[id].Board, CellP2)
                     = IF games[id].Turn = CellP1 THEN 0 ELSE 1

\* Three moves have been accepted and the session goes on, CellP2 to move.
C18_ThreeMovesOn ==
    /\ games[1].Status = StatusActive
    /\ games[1].Turn = CellP2
    /\ Discs(games[1].Board) = Discs(LateBoard) + 3
    /\ ret.op = "HandleMove" /\ ret.err = NoErr

\* C19: once a session is finished, no call on the registry (HandleMove by
\* a player, by anyone else or by the embedded opponent, SweepDisconnects,
\* MarkDisconnected, AssignPlayer, StartBotGame, Abandon) changes its
\* board, its status or its winner.
C19_FinishedIsFrozen ==
    [][\A id \in GameIDs :
          games[id].Status = StatusFinished
              => /\ id \in 1 .. Len(games')
                 /\ games'[id].Board = games[id].Board
                 /\ games'[id].Status = games[id].Status
                 /\ games'[id].Winner = games[id].Winner]_vars

\* A move was sent to a finished session by the player whose turn it was
\* when the session ended, and was refused.
C19_MoveOnFinished ==
    /\ ret.op = "HandleMove"
    /\ ret.gameID \in GameIDs
    /\ games[ret.gameID].Status = StatusFinished
    /\ ret.user \in DOMAIN games[ret.gameID].Players
    /\ games[ret.gameID].Players[ret.user].Slot = games[ret.gameID].Turn
    /\ ret.err = ErrGameFinished

(***************************************************************************)
(* The fallback timer                                                      *)
(***************************************************************************)
\* username is a player of no session that is not finished.
Unpaired(username) ==
    \A id \in GameIDs :
        games[id].Status # StatusFinished => username \notin DOMAIN games[id].Players

\* The step is the timer of ret'.user firing.
TimerStep ==
    /\ ret'.op \in {"GetGameByUser", "StartBotGame"}
    /\ AfterFunc(ret'.user)

\* C20: when the fallback timer of an identity that was told to wait fires
\* and the identity is unpaired, a session of the identity against the
\* embedded opponent is created, also when the identity took part in a
\* session that has finished since.
C20_FallbackCreated ==
    [][(TimerStep /\ Unpaired(ret'.user))
          => /\ Len(games') = Len(games) + 1
             /\ games'[Len(games')].Bot # 0
             /\ games'[Len(games')].Status = StatusActive
             /\ ret'.user \in DOMAIN games'[Len(games')].Players
             /\ userToGame'[ret'.user] = Len(games')]_vars

\* The timer of the waiting identity fired, the identity having taken part
\* in a session that is finished, and no session was created for it.
C20_WaitingLeftAlone ==
    /\ ret.op = "GetGameByUser"
    /\ waiting = ret.user
    /\ Unpaired(ret.user)
    /\ games[ret.game].Status = StatusFinished

\* The timer of an identity that never was in a session creates its session.
C20_FirstTimerCreates ==
    /\ ret.op = "StartBotGame"
    /\ waiting = ret.user
    /\ ret.user \notin timers
    /\ games[ret.game].Bot # 0

(***************************************************************************)
(* The server                                                              *)
(***************************************************************************)
\* The step is the return of client c's readPump: its connection closed.
Closes(c) == clients[c].pc = "read" /\ clients'[c].pc = "done"

\* username has a client whose readPump has not returned.
Live(cl, username) ==
    \E c \in DOMAIN cl : cl[c].username = username /\ cl[c].pc # "done"

\* C22: when a connection closes while its identity is waiting and was
\* never paired, the identity leaves the waiting slot and the identity
\* index, so that the next other identity to arrive waits instead of being
\* paired with the one that left.
C22_CloseAbandons ==
    [][\A c \in ClientIDs :
          (/\ Closes(c)
           /\ waiting = clients[c].username
           /\ userToGame[clients[c].username] = 0)
              => /\ waiting' # clients[c].username
                 /\ userToGame'[clients[c].username] = 0]_vars

\* An arriving identity was paired with a waiting identity that has no
\* connection left.
C22_PairedWithDeparted ==
    /\ ret.op = "AssignPlayer"
    /\ ret.game \in GameIDs
    /\ \E uname \in DOMAIN games[ret.game].Players :
          /\ uname # ret.user
          /\ ~Live(clients, uname)
          /\ games[ret.game].Idle = 0

\* C23: whenever a session becomes finished (by a winning move, a draw or a
\* forfeit of SweepDisconnects) a "state" message with status finished and
\* the winner is enqueued for every human player of the session that has a
\* connection.
C23_FinishIsBroadcast ==
    [][\A id \in GameIDs :
          (games[id].Status # StatusFinished /\ games'[id].Status = StatusFinished)
              => \A uname \in Humans(games'[id]) :
                    connections[uname] # 0
                        => LET before == clients[connections[uname]].send
                               after == clients'[connections[uname]].send
                           IN  /\ Len(after) = Len(before) + 1
                               /\ after[Len(after)] = Payload("state", games'[id])]_vars

\* C24: MarkDisconnected(username) sets the last-activity time of the
\* session of username to now and changes nothing else; and a sweep
\* forfeits a session only when more than the reconnection window has
\* passed since the last disconnect observed or move accepted on it.
C24_WindowFromLastActivity ==
    [][/\ \A username \in LateUsers :
              MarkDisconnected(username)
                  => /\ waiting' = waiting
                     /\ userToGame' = userToGame
                     /\ onFinishRuns' = onFinishRuns
                     /\ DOMAIN games' = DOMAIN games
                     /\ \A id \in GameIDs :
                           games'[id] = [games[id] EXCEPT !.Idle =
                                            IF id = userToGame[username] THEN 0 ELSE @]
       /\ \A id \in GameIDs :
              (/\ ret'.op # "HandleMove"
               /\ games[id].Status # StatusFinished
               /\ games'[id].Status = StatusFinished)
                  => games[id].Idle > ReconnectAfter]_vars

\* A session aged by a full window after a disconnect was observed on it,
\* with a move accepted before, and was forfeited by the sweep only then.
C24_ForfeitedAfterWindow ==
    /\ games[1].Status = StatusFinished
    /\ onFinishRuns[1] = 1
    /\ ret = NoRet
    /\ Discs(games[1].Board) > Discs(LateBoard)
    /\ games[1].Idle > ReconnectAfter
    /\ games[1].Winner \in {"a", "b"}

\* Session id exists, is not finished and has been idle for some time.
Ageing(id) ==
    /\ id \in GameIDs
    /\ games[id].Status # StatusFinished
    /\ games[id].Idle > 0

\* Session id is finished, or a move was accepted or a disconnect observed
\* on it just now.
FinishedOrTouched(id) ==
    /\ id \in GameIDs
    /\ games[id].Status = StatusFinished \/ games[id].Idle = 0

\* C25: with the sweeper being run again and again, every session that is
\* not finished and on which no further move is accepted and no further
\* disconnect is observed becomes finished; and the close of a connection
\* finishes no session.
C25_ForfeitLiveness ==
    /\ \A id \in 1 .. MaxGames : Ageing(id) ~> FinishedOrTouched(id)
    /\ [][\A c \in ClientIDs :
              Closes(c) => \A id \in GameIDs : games'[id].Status = games[id].Status]_vars

\* A session was forfeited after the connection of one of its players had
\* closed, the session having stayed active at the close.
C25_ForfeitedAfterClose ==
    /\ games # <<>>
    /\ games[1].Status = StatusFinished
    /\ onFinishRuns[1] = 1
    /\ \E c \in ClientIDs :
          /\ clients[c].pc = "done"
          /\ clients[c].username \in DOMAIN games[1].Players

\* The step is an accepted move.
Accepted == ret'.op = "HandleMove" /\ ret'.err = NoErr /\ ret' # ret

\* C26: a queue never holds more than SendCap messages; a step changes a
\* queue only by taking its oldest message or by appending one, and leaves
\* a full queue as it is but for the taking; the queue of an identity
\* without a connection gets nothing; and an accepted move is carried out
\* whole (the disc is on the board, every connected player whose queue has
\* room gets the state, the adapter goes on) also when a queue is full.
C26_OfferNeverBlocks ==
    [][/\ \A c \in ClientIDs :
              LET q == clients[c].send
                  r == clients'[c].send
              IN  /\ Len(r) <= SendCap
                  /\ \/ r = q
                     \/ q # <<>> /\ r = Tail(q)
                     \/ Len(q) < SendCap /\ Len(r) = Len(q) + 1 /\ SubSeq(r, 1, Len(q)) = q
                  /\ connections[clients[c].username] # c /\ clients[c].pc = "done"
                        => Len(r) <= Len(q)
       /\ Accepted
              => /\ games'[ret'.gameID].Board # games[ret'.gameID].Board
                 /\ \A c \in ClientIDs :
                       /\ clients'[c].reads = clients[c].reads + 1
                             => clients'[c].pc \in {"read", "bot"}
                       /\ (/\ connections[clients[c].username] = c
                           /\ clients[c].username \in Humans(games[ret'.gameID]))
                             => clients'[c].send =
                                   IF Len(clients[c].send) < SendCap
                                   THEN Append(clients[c].send,
                                               Payload("state", games'[ret'.gameID]))
                                   ELSE clients[c].send]_vars

\* A move of "a" was accepted while the queue of "b" was full: "a" has the
\* state, the queue of "b" still holds its SendCap error messages.
C26_MovedPastFullQueue ==
    /\ ret.op = "HandleMove" /\ ret.err = NoErr /\ ret.user = "a"
    /\ Len(clients[2].send) = SendCap
    /\ \A i \in 1 .. SendCap : clients[2].send[i].type = "error"
    /\ clients[1].send # <<>>
    /\ clients[1].send[Len(clients[1].send)].type = "state"
    /\ Discs(games[1].Board) = Discs(LateBoard) + 1

\* C27: every session AssignPlayer creates by pairing has two distinct
\* players, one with CellP1 and one with CellP2, also when the waiting
\* identity calls AssignPlayer again.
C27_PairsAreDistinct ==
    \A id \in GameIDs :
        games[id].Bot = 0
            => \E u1 \in DOMAIN games[id].Players, u2 \in DOMAIN games[id].Players :
                  /\ u1 # u2
                  /\ DOMAIN games[id].Players = {u1, u2}
                  /\ games[id].Players[u1].Slot = CellP1
                  /\ games[id].Players[u2].Slot = CellP2

\* The sessions that are not finished and have username among their players.
LiveGamesOf(username) ==
    {id \in GameIDs : /\ games[id].Status # StatusFinished
                      /\ username \in DOMAIN games[id].Players}

\* C28: every identity is a player of at most one session that is not
\* finished, and the waiting identity of none: after StartBotGame has
\* created a session for the waiting identity, nobody is paired with it.
C28_OneLiveGameEach ==
    /\ \A username \in Users : Cardinality(LiveGamesOf(username)) <= 1
    /\ waiting # NoUser => LiveGamesOf(waiting) = {}

\* An arriving identity was paired with an identity that was already
\* playing the embedded opponent.
C28_PairedWhilePlaying ==
    /\ ret.op = "AssignPlayer"
    /\ ret.game \in GameIDs
    /\ \E uname \in Users \ {ret.user} :
          /\ ret.game \in LiveGamesOf(uname)
          /\ \E id \in LiveGamesOf(uname) : games[id].Bot # 0

\* C29: an identity that has a connection whose adapter has not returned is
\* registered with such a connection; the return of the adapter of an
\* older connection of the identity does not remove the newer one.
C29_LiveIsRegistered ==
    \A username \in Users :
        Live(clients, username)
            => /\ connections[username] # 0
               /\ clients[connections[username]].pc # "done"

\* C30: when SweepDisconnects forfeits a session of two humans of whom one
\* has no connection left and the other is still connected, the winner
\* recorded is the one still connected.
C30_ForfeitToConnected ==
    [][\A id \in GameIDs :
          (/\ games[id].Status # StatusFinished
           /\ games'[id].Status = StatusFinished
           /\ ret'.op # "HandleMove"
           /\ games[id].Bot = 0)
              => \A stayed \in DOMAIN games[id].Players, left \in DOMAIN games[id].Players :
                    (/\ stayed # left
                     /\ Live(clients, stayed)
                     /\ ~Live(clients, left))
                        => games'[id].Winner = stayed]_vars

\* The sessions against the embedded opponent in which it is the
\* opponent's turn.
BotsTurn(id) ==
    /\ games[id].Bot # 0
    /\ games[id].Status = StatusActive
    /\ games[id].Turn = games[id].Bot

\* C21 as written: whenever an adapter is about to read an inbound event,
\* the session of its identity against the embedded opponent is finished
\* or it is the human's turn.
C21_AsWritten ==
    \A c \in ClientIDs :
        clients[c].pc = "read"
            => \A id \in GameIDs :
                  clients[c].username \in DOMAIN games[id].Players => ~BotsTurn(id)

\* C21: the opponent's turn is never left waiting for an inbound event:
\* whenever it is the opponent's turn, the adapter that read the accepted
\* move stands before playBotTurn for that session; so an adapter that is
\* about to read finds the session finished or on the human's turn unless
\* another adapter of the identity is just applying the opponent's move.
C21_ReplyBeforeRead ==
    \A id \in GameIDs :
        BotsTurn(id)
            => \E c \in ClientIDs :
                  /\ clients[c].pc = "bot"
                  /\ clients[c].game = id
                  /\ \A d \in ClientIDs \ {c} : clients[d].pc # "bot"

\* The opponent has answered two moves of the human and the adapter is
\* reading again, the human to move.
C21_Answered ==
    /\ ret.op = "HandleMove" /\ ret.user = BotName /\ ret.err = NoErr
    /\ Discs(games[ret.gameID].Board) = 4
    /\ games[ret.gameID].Status = StatusActive
    /\ games[ret.gameID].Turn = CellP1
    /\ \A c \in ClientIDs : clients[c].pc \in {"read", "done"}

\* C31: SweepDisconnects forfeits a session only if one of its human
\* players has no connection left: a session whose players all stay
\* connected is never finished by the sweep, however long a move takes.
C31_ForfeitOnlyAfterDisconnect ==
    [][\A id \in GameIDs :
          (/\ games[id].Status # StatusFinished
           /\ games'[id].Status = StatusFinished
           /\ ret'.op # "HandleMove")
              => \E uname \in Humans(games[id]) : ~Live(clients, uname)]_vars

\* A session of two humans was forfeited while both were connected and no
\* connection had ever closed.
C31_ForfeitedWhileConnected ==
    /\ games # <<>>
    /\ games[1].Status = StatusFinished
    /\ games[1].Bot = 0
    /\ onFinishRuns[1] = 1
    /\ Humans(games[1]) = {"a", "b"}
    /\ \A c \in ClientIDs : clients[c].pc = "read"
    /\ connections["a"] # 0 /\ connections["b"] # 0

=============================================================================
